---- MODULE Spec2Model ----
(***************************************************************************)
(* Order-book fill-cost calculation and two-venue comparison               *)
(* (src/orderbook.js, CLI entry point in src/unnamed/part_000).            *)
(*                                                                         *)
(* Numbers.  Amounts and costs are decimal values held as integers counted *)
(* in sub-units: RoundUnit sub-units make one unit of the 8th decimal      *)
(* place (1e-8), so toFixed(8) is a real rounding and not the identity.    *)
(* Prices are whole quote units, so take * price is again a count of       *)
(* sub-units.  A JavaScript value that need not be a finite number (the    *)
(* btcAmount argument, the running `remaining`) is a record [k, v] with    *)
(* k in {"fin", "nan", "inf", "str"}.  Binary floating-point representation *)
(* error is not modelled.                                                  *)
(***************************************************************************)
EXTENDS Integers, Sequences, FiniteSets, TLC

\* ---------------------------------------------------------------- bounds
MaxLevels == 2
MaxPrice == 2
MaxQty == 2
MaxAmount == 4
RoundUnit == 3

\* ------------------------------------------------------- JavaScript values
Fin(n) == [k |-> "fin", v |-> n]
NaN == [k |-> "nan", v |-> 0]
Infinity == [k |-> "inf", v |-> 0]
NotANumber == [k |-> "str", v |-> 0]

\* typeof x === "number"
IsNumber(x) == x.k # "str"

\* x <= n for a finite n: false for NaN and for +Infinity
JsLeq(x, n) == x.k = "fin" /\ x.v <= n

\* x - n for a finite n: NaN and Infinity absorb
JsMinus(x, n) == IF x.k = "fin" THEN Fin(x.v - n) ELSE x

\* x === 0
JsIsZero(x) == x.k = "fin" /\ x.v = 0

\* Number.prototype.toFixed(8) followed by parseFloat, on a finite n >= 0:
\* the nearest multiple of 1e-8, the larger one on a tie
Round8(n) == ((2 * n + RoundUnit) \div (2 * RoundUnit)) * RoundUnit

\* the same on a value that may be NaN or Infinity ("NaN", "Infinity" parse back)
toFixed8(x) == IF x.k = "fin" THEN Fin(Round8(x.v)) ELSE x

\* --------------------------------------------------------------- venues
Venues == {"Binance", "BtcTurk"}

\* a price level [price, quantity] after parseFloat
Levels == [price : 0..MaxPrice, quantity : 0..MaxQty]

RECURSIVE SeqsUpTo(_, _)
SeqsUpTo(S, n) ==
    IF n = 0 THEN {<<>>}
    ELSE LET shorter == SeqsUpTo(S, n - 1)
         IN shorter \cup {Append(s, x) : s \in {t \in shorter : Len(t) = n - 1}, x \in S}

\* every ask sequence the pure function is applied to
AnyBooks == SeqsUpTo(Levels, MaxLevels)

\* the ask side a venue serves: positive prices and quantities, ascending by price
ExchangeBooks ==
    {b \in AnyBooks :
        /\ \A i \in 1..Len(b) : b[i].price > 0 /\ b[i].quantity > 0
        /\ \A i \in 1..(Len(b) - 1) : b[i].price < b[i + 1].price}

PositiveAmounts == {Fin(n) : n \in 1..MaxAmount}

\* arguments a caller can pass as btcAmount
Amounts == PositiveAmounts \cup {Fin(0), Fin(-1), NaN, Infinity, NotANumber}

\* ------------------------------------------------- calculateUsdtNeeded
WalkStart(btcAmount) ==
    [remaining |-> btcAmount, totalCost |-> 0, filled |-> 0, stop |-> FALSE]

\* FillLevel with `remaining = 0` left out of the branch that breaks
FillLevelKeepsRemaining(st, level) ==
    IF JsLeq(st.remaining, level.quantity)
    THEN [remaining |-> st.remaining,
          totalCost |-> st.totalCost + st.remaining.v * level.price,
          filled |-> st.filled + st.remaining.v,
          stop |-> TRUE]
    ELSE [remaining |-> JsMinus(st.remaining, level.quantity),
          totalCost |-> st.totalCost + level.quantity * level.price,
          filled |-> st.filled + level.quantity,
          stop |-> FALSE]

\* FillLevel with `totalCost = remaining * price` for `totalCost += ...`
FillLevelAssignsCost(st, level) ==
    IF JsLeq(st.remaining, level.quantity)
    THEN [remaining |-> Fin(0),
          totalCost |-> st.remaining.v * level.price,
          filled |-> st.filled + st.remaining.v,
          stop |-> TRUE]
    ELSE [remaining |-> JsMinus(st.remaining, level.quantity),
          totalCost |-> st.totalCost + level.quantity * level.price,
          filled |-> st.filled + level.quantity,
          stop |-> FALSE]

\* one iteration of the for-loop body
FillLevel(st, level) ==
    IF JsLeq(st.remaining, level.quantity)
    THEN [remaining |-> Fin(0),
          totalCost |-> st.totalCost + st.remaining.v * level.price,
          filled |-> st.filled + st.remaining.v,
          stop |-> TRUE]
    ELSE [remaining |-> JsMinus(st.remaining, level.quantity),
          totalCost |-> st.totalCost + level.quantity * level.price,
          filled |-> st.filled + level.quantity,
          stop |-> FALSE]

\* Walk that looks at the best ask only
WalkFirstOnly(asks, st) ==
    IF asks = <<>> THEN st ELSE FillLevel(st, Head(asks))

\* the for-loop over asks, left by break
RECURSIVE Walk(_, _)
Walk(asks, st) ==
    IF asks = <<>> \/ st.stop THEN st
    ELSE Walk(Tail(asks), FillLevel(st, Head(asks)))

Threw == [threw |-> TRUE, usdtNeeded |-> 0, filledBtc |-> 0,
          unfilledBtc |-> Fin(0), isPartial |-> FALSE]

\* calculateUsdtNeeded that throws on every shortfall, whatever partialFill says
calculateUsdtNeededStrict(asks, btcAmount, partialFill) ==
    LET w == Walk(asks, WalkStart(btcAmount))
        remaining == IF w.filled = 0 THEN btcAmount ELSE w.remaining
        isFilled == JsIsZero(remaining)
    IN IF ~isFilled
       THEN Threw
       ELSE [threw |-> FALSE,
             usdtNeeded |-> Round8(w.totalCost),
             filledBtc |-> Round8(w.filled),
             unfilledBtc |-> toFixed8(remaining),
             isPartial |-> ~isFilled]

\* the exported fill calculator; a throw is the outcome Threw
calculateUsdtNeeded(asks, btcAmount, partialFill) ==
    LET w == Walk(asks, WalkStart(btcAmount))
        remaining == IF w.filled = 0 THEN btcAmount ELSE w.remaining
        isFilled == JsIsZero(remaining)
    IN IF ~isFilled /\ ~partialFill
       THEN Threw
       ELSE [threw |-> FALSE,
             usdtNeeded |-> Round8(w.totalCost),
             filledBtc |-> Round8(w.filled),
             unfilledBtc |-> toFixed8(remaining),
             isPartial |-> ~isFilled]

Call(asks, btcAmount, partialFill) ==
    [asks |-> asks, btcAmount |-> btcAmount, partialFill |-> partialFill,
     out |-> calculateUsdtNeeded(asks, btcAmount, partialFill)]

\* ----------------------------------------------------------------- state
VARIABLES
    caller,      \* "none", "direct" (compareExchanges called), "cli" (runComparison)
    btcAmount,   \* the btcAmount argument
    partialFill, \* the partialFill option
    pc,          \* compareExchanges: "idle", "awaiting", "returned", "threw"
    fetch,       \* per venue: "idle", "pending", "ok", "failed"
    book,        \* per venue: the asks its fetch returned
    rejected,    \* the venue whose rejection settled Promise.all, or "none"
    calls,       \* the invocations of calculateUsdtNeeded, in order
    logged,      \* error.message printed by compareExchanges' catch
    thrown,      \* the error compareExchanges threw to its caller
    result,      \* <<>> or <<the object compareExchanges returned>>
    printed      \* what runComparison printed last

vars == <<caller, btcAmount, partialFill, pc, fetch, book, rejected, calls,
          logged, thrown, result, printed>>

Init ==
    /\ caller = "none"
    /\ btcAmount = Fin(0)
    /\ partialFill = FALSE
    /\ pc = "idle"
    /\ fetch = [v \in Venues |-> "idle"]
    /\ book = [v \in Venues |-> <<>>]
    /\ rejected = "none"
    /\ calls = <<>>
    /\ logged = "none"
    /\ thrown = "none"
    /\ result = <<>>
    /\ printed = "none"


\* ------------------------------------------------------ fetch functions
\* what axios.get can produce for one venue: a rejection (transport error,
\* timeout, non-2xx status), or a delivered response with a status and a body
Responses ==
    {[delivered |-> FALSE, status |-> 0, asksIsArray |-> FALSE,
      bidsIsArray |-> FALSE, asks |-> <<>>]}
    \cup {[delivered |-> TRUE, status |-> 204, asksIsArray |-> FALSE,
           bidsIsArray |-> FALSE, asks |-> <<>>]}
    \cup {[delivered |-> TRUE, status |-> 200, asksIsArray |-> FALSE,
           bidsIsArray |-> b, asks |-> <<>>] : b \in BOOLEAN}
    \cup {[delivered |-> TRUE, status |-> 200, asksIsArray |-> TRUE,
           bidsIsArray |-> b, asks |-> a] : b \in BOOLEAN, a \in ExchangeBooks}

\* validateBinanceData / validateBtcTurkData
validateData(r) == r.asksIsArray /\ r.bidsIsArray

\* fetchBinanceOrderBook / fetchBtcTurkOrderBook: TRUE when the function
\* returns {asks, bids}; otherwise its catch logs and throws "Failed to fetch"
fetchReturns(r) == r.delivered /\ r.status = 200 /\ validateData(r)

\* ------------------------------------------------------- compareExchanges
\* the guard of compareExchanges and of runComparison
InvalidAmount(x) == ~IsNumber(x) \/ JsLeq(x, 0)

\* a join that is content with one fulfilled fetch
AnyFulfilled == \E v \in Venues : fetch[v] = "ok"

\* Promise.all fulfils when every fetch has fulfilled
AllFulfilled == \A v \in Venues : fetch[v] = "ok"

\* isZero with `val < 0` for `val <= 0`
isZeroNegativeOnly(val) == val < 0

\* isZero on a filledBtc, which is always a finite number here
isZero(val) == val <= 0

\* betterExchange with the comparison turned round
betterExchangeFlipped(binanceResult, btcturkResult) ==
    IF binanceResult.usdtNeeded * btcturkResult.filledBtc
         > btcturkResult.usdtNeeded * binanceResult.filledBtc
    THEN "Binance" ELSE "BtcTurk"

\* binancePricePerBTC < btcturkPricePerBTC ? "Binance" : "BtcTurk", the two
\* quotients usdtNeeded / filledBtc compared exactly (both divisors > 0)
betterExchange(binanceResult, btcturkResult) ==
    IF binanceResult.usdtNeeded * btcturkResult.filledBtc
         < btcturkResult.usdtNeeded * binanceResult.filledBtc
    THEN "Binance" ELSE "BtcTurk"

\* a catch that throws what it caught
RethrowCaught(message) == message

\* the catch of compareExchanges: whatever was caught, a new error is thrown
Rethrow(message) == "ComparisonFailed"

\* the body of the try block once both order books are there
Compare(binanceAsks, btcturkAsks, amount, partial) ==
    LET c1 == Call(binanceAsks, amount, partial)
        c2 == Call(btcturkAsks, amount, partial)
    IN IF c1.out.threw
       THEN [calls |-> <<c1>>, logged |-> "InsufficientLiquidity",
             thrown |-> Rethrow("InsufficientLiquidity"), result |-> <<>>]
       ELSE IF c2.out.threw
       THEN [calls |-> <<c1, c2>>, logged |-> "InsufficientLiquidity",
             thrown |-> Rethrow("InsufficientLiquidity"), result |-> <<>>]
       ELSE IF isZero(c1.out.filledBtc) \/ isZero(c2.out.filledBtc)
       THEN [calls |-> <<c1, c2>>, logged |-> "ZeroLiquidity",
             thrown |-> Rethrow("ZeroLiquidity"), result |-> <<>>]
       ELSE [calls |-> <<c1, c2>>, logged |-> "none", thrown |-> "none",
             result |-> <<[binance |-> c1.out, btcTurk |-> c2.out,
                          betterExchange |-> betterExchange(c1.out, c2.out)]>>]

\* ---------------------------------------------------------- runComparison
\* what runComparison prints once compareExchanges has settled
Report(r) ==
    IF r.thrown # "none" THEN "error"
    ELSE IF r.result[1].binance.filledBtc = 0 /\ r.result[1].btcTurk.filledBtc = 0
    THEN "info"
    ELSE "result"

\* ---------------------------------------------------------------- actions
\* a caller invokes compareExchanges(amount, {partialFill: partial})
CompareExchanges(amount, partial) ==
    /\ caller = "none"
    /\ caller' = "direct"
    /\ btcAmount' = amount
    /\ partialFill' = partial
    /\ IF InvalidAmount(amount)
       THEN /\ pc' = "threw"
            /\ thrown' = "InvalidAmount"
            /\ UNCHANGED fetch
       ELSE /\ pc' = "awaiting"
            /\ fetch' = [v \in Venues |-> "pending"]
            /\ UNCHANGED thrown
    /\ UNCHANGED <<book, rejected, calls, logged, result, printed>>

\* the CLI invokes runComparison(amount, partial)
RunComparison(amount, partial) ==
    /\ caller = "none"
    /\ caller' = "cli"
    /\ btcAmount' = amount
    /\ partialFill' = partial
    /\ IF InvalidAmount(amount)
       THEN /\ printed' = "invalid"
            /\ UNCHANGED <<pc, fetch>>
       ELSE /\ pc' = "awaiting"
            /\ fetch' = [v \in Venues |-> "pending"]
            /\ UNCHANGED printed
    /\ UNCHANGED <<book, rejected, calls, logged, thrown, result>>

\* the request of venue v settles and its fetch function runs to its end
FetchSettle(v, r) ==
    /\ fetch[v] = "pending"
    /\ IF fetchReturns(r)
       THEN /\ fetch' = [fetch EXCEPT ![v] = "ok"]
            /\ book' = [book EXCEPT ![v] = r.asks]
            /\ UNCHANGED rejected
       ELSE /\ fetch' = [fetch EXCEPT ![v] = "failed"]
            /\ rejected' = IF rejected = "none" THEN v ELSE rejected
            /\ UNCHANGED book
    /\ UNCHANGED <<caller, btcAmount, partialFill, pc, calls, logged, thrown,
                   result, printed>>

\* Promise.all rejected: the await throws into the catch of compareExchanges
JoinReject ==
    /\ pc = "awaiting"
    /\ rejected # "none"
    /\ pc' = "threw"
    /\ logged' = "FetchFailed"
    /\ thrown' = Rethrow("FetchFailed")
    /\ printed' = IF caller = "cli" THEN "error" ELSE printed
    /\ UNCHANGED <<caller, btcAmount, partialFill, fetch, book, rejected, calls,
                   result>>

\* Promise.all fulfilled: the rest of the try block runs
JoinFulfil ==
    /\ pc = "awaiting"
    /\ AllFulfilled
    /\ LET r == Compare(book["Binance"], book["BtcTurk"], btcAmount, partialFill)
       IN /\ pc' = IF r.thrown = "none" THEN "returned" ELSE "threw"
          /\ calls' = r.calls
          /\ logged' = r.logged
          /\ thrown' = r.thrown
          /\ result' = r.result
          /\ printed' = IF caller = "cli" THEN Report(r) ELSE printed
    /\ UNCHANGED <<caller, btcAmount, partialFill, fetch, book, rejected>>

Next ==
    \/ \E a \in Amounts, p \in BOOLEAN : CompareExchanges(a, p)
    \/ \E a \in Amounts, p \in BOOLEAN : RunComparison(a, p)
    \/ \E v \in {w \in Venues : fetch[w] = "pending"}, r \in Responses : FetchSettle(v, r)
    \/ JoinReject
    \/ JoinFulfil

Spec == Init /\ [][Next]_vars

\* ------------------------------------------------------------ types
TypeOK ==
    /\ caller \in {"none", "direct", "cli"}
    /\ btcAmount \in Amounts
    /\ partialFill \in BOOLEAN
    /\ pc \in {"idle", "awaiting", "returned", "threw"}
    /\ fetch \in [Venues -> {"idle", "pending", "ok", "failed"}]
    /\ book \in [Venues -> ExchangeBooks]
    /\ rejected \in Venues \cup {"none"}
    /\ Len(calls) <= 2
    /\ logged \in {"none", "FetchFailed", "InsufficientLiquidity", "ZeroLiquidity"}
    /\ thrown \in {"none", "InvalidAmount", "ComparisonFailed"}
    /\ Len(result) <= 1
    /\ printed \in {"none", "invalid", "info", "result", "error"}

\* ------------------------------------- calculateUsdtNeeded called directly
\* the exported function applied to any ask sequence and positive amount
CalculateFirst(asks, amount, partial) ==
    /\ calls = <<>>
    /\ calls' = <<Call(asks, amount, partial)>>
    /\ UNCHANGED <<caller, btcAmount, partialFill, pc, fetch, book, rejected,
                   logged, thrown, result, printed>>

\* applied once more to the same asks, with another amount
CalculateAgain(amount) ==
    /\ Len(calls) = 1
    /\ calls' = Append(calls, Call(calls[1].asks, amount, calls[1].partialFill))
    /\ UNCHANGED <<caller, btcAmount, partialFill, pc, fetch, book, rejected,
                   logged, thrown, result, printed>>

NextCalc ==
    \/ /\ calls = <<>>
       /\ \E a \in AnyBooks, x \in PositiveAmounts, p \in BOOLEAN : CalculateFirst(a, x, p)
    \/ \E x \in PositiveAmounts : CalculateAgain(x)

SpecCalc == Init /\ [][NextCalc]_vars

\* ------------------------------------------------- reference definitions
Min(a, b) == IF a <= b THEN a ELSE b

Abs(n) == IF n < 0 THEN -n ELSE n

\* total quantity of all levels
RECURSIVE Depth(_)
Depth(asks) == IF asks = <<>> THEN 0 ELSE Head(asks).quantity + Depth(Tail(asks))

\* sum of take_i * price_i with take_i = min(remaining, quantity_i)
RECURSIVE GreedyCost(_, _)
GreedyCost(asks, remaining) ==
    IF asks = <<>> THEN 0
    ELSE LET take == Min(remaining, Head(asks).quantity)
         IN take * Head(asks).price + GreedyCost(Tail(asks), remaining - take)

\* the invocations that returned, with a positive finite target
Returned == {i \in DOMAIN calls : ~calls[i].out.threw /\ calls[i].btcAmount.k = "fin"
                                   /\ calls[i].btcAmount.v > 0}

PositiveTarget(x) == (x.k = "fin" /\ x.v > 0) \/ x.k = "inf"

PositiveFinite(x) == x.k = "fin" /\ x.v > 0

Settled == pc \in {"returned", "threw"}

\* what the fill walk of venue v yields as filledBtc for the current amount
FilledBtcOf(v) == Round8(Walk(book[v], WalkStart(btcAmount)).filled)

C9_Monotone ==
    \A i, j \in Returned :
        (/\ calls[i].asks = calls[j].asks
         /\ calls[i].btcAmount.v <= calls[j].btcAmount.v
         /\ calls[j].btcAmount.v <= Depth(calls[j].asks))
        => calls[i].out.usdtNeeded <= calls[j].out.usdtNeeded

\* two targets within depth, the larger reaching into the second level and
\* costing strictly more
C9_Witness ==
    /\ Len(calls) = 2
    /\ Returned = {1, 2}
    /\ Len(calls[1].asks) = 2
    /\ calls[1].btcAmount.v < calls[2].btcAmount.v
    /\ calls[1].asks[1].quantity < calls[2].btcAmount.v
    /\ calls[2].btcAmount.v <= Depth(calls[1].asks)
    /\ calls[1].out.usdtNeeded < calls[2].out.usdtNeeded

C3_InvalidAmountRejected ==
    (caller = "direct" /\ ~PositiveFinite(btcAmount)) =>
        /\ pc = "threw"
        /\ thrown = "InvalidAmount"
        /\ \A v \in Venues : fetch[v] = "idle"
        /\ calls = <<>>
        /\ result = <<>>

\* ------------------------------------------------------------------ C4
\* a venue whose book, once both fetches are in and compareExchanges has
\* settled with partial fill allowed and a positive target, fills nothing
ZeroFillVenues ==
    IF Settled /\ AllFulfilled /\ partialFill /\ PositiveTarget(btcAmount)
    THEN {v \in Venues : FilledBtcOf(v) = 0}
    ELSE {}

\* C4 as stated: a venue that fills nothing makes compareExchanges fail with
\* the zero-liquidity error and return nothing, although calculateUsdtNeeded
\* on that venue alone returns filledBtc = 0 and isPartial = true; no
\* returned result holds a venue with filledBtc <= 0.
C4_ZeroLiquidityPartialAlone ==
    /\ \A v \in ZeroFillVenues :
          LET alone == calculateUsdtNeeded(book[v], btcAmount, TRUE)
          IN /\ pc = "threw" /\ logged = "ZeroLiquidity" /\ thrown # "none"
             /\ result = <<>>
             /\ ~alone.threw /\ alone.filledBtc = 0 /\ alone.isPartial
    /\ result # <<>> =>
          result[1].binance.filledBtc > 0 /\ result[1].btcTurk.filledBtc > 0

\* C4 amended: a venue that fills nothing makes compareExchanges fail with
\* the zero-liquidity error and return nothing, although calculateUsdtNeeded
\* on that venue alone returns without failing, with filledBtc = 0; that
\* result has isPartial = true exactly when the venue's depth is below the
\* target (empty asks among them), and isPartial = false when the book covers
\* a target so small that the filled amount rounds to 0.  No returned result
\* holds a venue with filledBtc <= 0.
C4_ZeroLiquidity ==
    /\ \A v \in ZeroFillVenues :
          LET alone == calculateUsdtNeeded(book[v], btcAmount, TRUE)
          IN /\ pc = "threw" /\ logged = "ZeroLiquidity" /\ thrown # "none"
             /\ result = <<>>
             /\ ~alone.threw /\ alone.filledBtc = 0
             /\ book[v] = <<>> => alone.isPartial
             /\ alone.isPartial <=>
                   ~(PositiveFinite(btcAmount) /\ btcAmount.v <= Depth(book[v]))
    /\ result # <<>> =>
          result[1].binance.filledBtc > 0 /\ result[1].btcTurk.filledBtc > 0

\* one venue served empty asks, the other a book that fills the target
C4_Witness ==
    /\ ZeroFillVenues = {"BtcTurk"}
    /\ book["BtcTurk"] = <<>>
    /\ book["Binance"] # <<>>
    /\ logged = "ZeroLiquidity"

\* ------------------------------------------------------------------ C5
\* C5 as stated: every error compareExchanges throws to its caller is the
\* one generic comparison error.
C5_SingleErrorKind ==
    thrown # "none" => thrown = "ComparisonFailed"

\* C5 amended: every failure raised after the amount check (a fetch or
\* validation failure, insufficient liquidity, zero liquidity) reaches the
\* caller as the one generic comparison error; an invalid amount reaches the
\* caller as the distinct invalid-amount error, thrown outside the try block.
C5_GenericAfterValidation ==
    /\ pc = "threw" <=> thrown # "none"
    /\ thrown # "none" =>
          IF InvalidAmount(btcAmount)
          THEN thrown = "InvalidAmount" /\ logged = "none"
          ELSE thrown = "ComparisonFailed" /\ logged # "none"

\* a failed full fill surfaced as the generic error
C5_Witness ==
    /\ thrown = "ComparisonFailed"
    /\ logged = "InsufficientLiquidity"
    /\ Len(calls) = 2

\* ------------------------------------------------------------------ C6
\* C6: when runComparison's comparison has computed both venues' fills and
\* every venue filled nothing (filledBtc = 0 on both), runComparison printed
\* the informational message and not the error message.
C6_InfoOnTotalIlliquidity ==
    (/\ caller = "cli"
     /\ Len(calls) = 2
     /\ \A i \in 1..2 : ~calls[i].out.threw /\ calls[i].out.filledBtc = 0)
    => printed = "info"

\* ------------------------------------------------------------------ C7
\* C7: whenever compareExchanges returns, the unit price usdtNeeded / filledBtc
\* of the venue named by betterExchange is not greater than the other venue's.
C7_BestIsMinimum ==
    result # <<>> =>
        LET r == result[1]
            best == IF r.betterExchange = "Binance" THEN r.binance ELSE r.btcTurk
            other == IF r.betterExchange = "Binance" THEN r.btcTurk ELSE r.binance
        IN /\ r.betterExchange \in Venues
           /\ best.filledBtc > 0 /\ other.filledBtc > 0
           /\ best.usdtNeeded * other.filledBtc <= other.usdtNeeded * best.filledBtc

\* a returned comparison in which Binance is strictly cheaper per unit
C7_Witness ==
    /\ result # <<>>
    /\ result[1].betterExchange = "Binance"
    /\ result[1].binance.usdtNeeded * result[1].btcTurk.filledBtc
         < result[1].btcTurk.usdtNeeded * result[1].binance.filledBtc

\* ------------------------------------------------------------------ C8
\* C8: both fetches are issued together; fill calculation and ranking run
\* only after both fetches have fulfilled; once a fetch has failed no result
\* is returned, and a returned result carries the quotes of both venues.
C8_AllOrNothing ==
    /\ \A v, w \in Venues : fetch[v] = "idle" <=> fetch[w] = "idle"
    /\ calls # <<>> => AllFulfilled
    /\ pc = "returned" =>
          /\ AllFulfilled
          /\ Len(calls) = 2 /\ Len(result) = 1
          /\ calls[1].asks = book["Binance"] /\ calls[2].asks = book["BtcTurk"]
          /\ result[1].binance = calls[1].out /\ result[1].btcTurk = calls[2].out
    /\ (\E v \in Venues : fetch[v] = "failed") =>
          pc \in {"awaiting", "threw"} /\ result = <<>> /\ calls = <<>>
    /\ result # <<>> => pc = "returned"

\* the comparison has already failed while the other venue's fetch is still
\* in flight
C8_Witness ==
    /\ pc = "threw"
    /\ thrown = "ComparisonFailed"
    /\ \E v, w \in Venues : fetch[v] = "failed" /\ fetch[w] = "pending"

====
